---- MODULE Spec2Model ----
(***************************************************************************)
(* Model of check_format.py: the format checker reads file names from      *)
(* standard input and, for each one, compares the file's text with the     *)
(* output of the pipeline  sed (mask) | clang-format | sed (unmask).       *)
(*                                                                         *)
(* Texts are sequences of tokens.  The token PRAGMA stands for the         *)
(* thirteen characters "#pragma omp"; every other token is one character.  *)
(***************************************************************************)
EXTENDS Integers, Sequences, FiniteSets

(***************************************************************************)
(* Bounds of the model.                                                    *)
(***************************************************************************)
MaxStdin == 5
MaxContentLen == 4
MaxPad == 2
MaxCount == 257

(***************************************************************************)
(* Constants of the program and of the platform it runs on.                *)
(***************************************************************************)
\* sys.exit(status): the parent process observes the low eight bits
ExitBits == 8
\* an uncaught exception (open, Popen) ends the interpreter with status 1
UncaughtExceptionStatus == 1
\* exit status of clang-format when it reports an error
ToolErrorStatus == 1
\* Popen.returncode of a child ended by SIGKILL
KilledStatus == -9

PRAGMA == "#pragma omp"
SLASH == "/"
SPACE == " "
CR == "\r"
LF == "\n"

SeqsUpTo(S, n) == UNION {[1..k -> S] : k \in 0..n}

(***************************************************************************)
(* Line 8: sys.stdin.readlines() and name.strip().                         *)
(***************************************************************************)
StdinAlphabet == {"a", SPACE, LF}

IsWhitespace(c) == c \in {SPACE, LF, CR}

\* positions at which a line of s ends: after every LF, and at the end of s
LineEnds(s) == {i \in 1..Len(s) : s[i] = LF \/ i = Len(s)}

\* the k-th smallest element of the set of positions E
KthOf(E, k) == CHOOSE e \in E : Cardinality({x \in E : x <= e}) = k

\* readlines(): s cut after every LF, each line keeping its terminator
ReadLines(s) ==
    LET E == LineEnds(s)
    IN  [k \in 1..Cardinality(E) |->
            SubSeq(s, IF k = 1 THEN 1 ELSE KthOf(E, k - 1) + 1, KthOf(E, k))]

\* str.strip(): leading and trailing whitespace removed
Strip(line) ==
    LET keep == {i \in 1..Len(line) : ~IsWhitespace(line[i])}
    IN  IF keep = {} THEN <<>>
        ELSE SubSeq(line,
                    CHOOSE i \in keep : \A j \in keep : i <= j,
                    CHOOSE i \in keep : \A j \in keep : j <= i)

\* a variant that drops blank lines instead of keeping them as empty names
StrippedNamesSkipBlank(s) ==
    LET L == ReadLines(s)
        K == {k \in 1..Len(L) : Strip(L[k]) # <<>>}
    IN  [j \in 1..Cardinality(K) |-> Strip(L[KthOf(K, j)])]

\* files = [name.strip() for name in sys.stdin.readlines()]
StrippedNames(s) ==
    LET L == ReadLines(s)
    IN  [k \in 1..Len(L) |-> Strip(L[k])]

(***************************************************************************)
(* The file system: the paths that may exist, and for each its bytes or    *)
(* Missing.  Every other path does not exist.                              *)
(***************************************************************************)
Missing == <<"<missing>">>

FsPaths == {<<"a">>, <<"a", "a">>}

Readable(f, p) == p \in DOMAIN f /\ f[p] # Missing

\* a variant of open() that truncates the file (mode 'w')
FileAfterOpenTruncating(f, p) == [f EXCEPT ![p] = <<>>]

\* Line 17: open(name, 'r') leaves the file as it is
FileAfterOpen(f, p) == f

\* Lines 17-18: f.read() in text mode, universal newlines: CR LF and a lone
\* CR are both read as LF
RECURSIVE TextRead(_)
TextRead(b) ==
    IF b = <<>> THEN <<>>
    ELSE IF Head(b) = CR
         THEN IF Len(b) >= 2 /\ b[2] = LF
              THEN <<LF>> \o TextRead(SubSeq(b, 3, Len(b)))
              ELSE <<LF>> \o TextRead(Tail(b))
         ELSE <<Head(b)>> \o TextRead(Tail(b))

\* Line 22: bytes.decode('utf-8'): every byte of the (ASCII) alphabet becomes
\* the character of the same code; line ends are not translated
Utf8Decode(b) == [i \in 1..Len(b) |-> b[i]]

(***************************************************************************)
(* Line 19: sed 's/#pragma omp/\/\/#pragma omp/g'                          *)
(***************************************************************************)
RECURSIVE Mask(_)
Mask(s) ==
    IF s = <<>> THEN <<>>
    ELSE IF Head(s) = PRAGMA
         THEN <<SLASH, SLASH, PRAGMA>> \o Mask(Tail(s))
         ELSE <<Head(s)>> \o Mask(Tail(s))

(***************************************************************************)
(* Line 21: sed 's/\/\/ *#pragma omp/#pragma omp/g'                        *)
(***************************************************************************)
\* first position from j on that holds no SPACE (Len(s) + 1 if there is none)
RECURSIVE SkipSpaces(_, _)
SkipSpaces(s, j) ==
    IF j <= Len(s) /\ s[j] = SPACE THEN SkipSpaces(s, j + 1) ELSE j

\* the position where a match of  // *#pragma omp  starting at s[1] ends,
\* or 0 when there is no match at s[1]
MatchEnd(s) ==
    IF Len(s) >= 3 /\ s[1] = SLASH /\ s[2] = SLASH
    THEN LET j == SkipSpaces(s, 3)
         IN  IF j <= Len(s) /\ s[j] = PRAGMA THEN j ELSE 0
    ELSE 0

\* a variant whose pattern allows no spaces:  s/\/\/#pragma omp/#pragma omp/g
RECURSIVE UnmaskNoSpaces(_)
UnmaskNoSpaces(s) ==
    IF s = <<>> THEN <<>>
    ELSE IF Len(s) >= 3 /\ s[1] = SLASH /\ s[2] = SLASH /\ s[3] = PRAGMA
         THEN <<PRAGMA>> \o UnmaskNoSpaces(SubSeq(s, 4, Len(s)))
         ELSE <<Head(s)>> \o UnmaskNoSpaces(Tail(s))

RECURSIVE Unmask(_)
Unmask(s) ==
    IF s = <<>> THEN <<>>
    ELSE LET k == MatchEnd(s)
         IN  IF k > 0
             THEN <<PRAGMA>> \o Unmask(SubSeq(s, k + 1, Len(s)))
             ELSE <<Head(s)>> \o Unmask(Tail(s))

(***************************************************************************)
(* Line 20: clang-format -style=file, an external tool.  It is modelled as *)
(* a deterministic function of its input that changes white space only:    *)
(* it may leave the text alone, insert spaces after the "//" that starts   *)
(* a comment, remove trailing spaces, or rewrite the line ends.  With an   *)
(* unusable style file it writes nothing and exits with an error status.   *)
(***************************************************************************)
Spaces(k) == [i \in 1..k |-> SPACE]

\* every text that differs from s only by up to MaxPad spaces inserted after
\* the first "//" of a line; seen says that the current line's comment has
\* already started
RECURSIVE PadFrom(_, _)
PadFrom(s, seen) ==
    IF s = <<>> THEN {<<>>}
    ELSE IF Head(s) = LF
         THEN {<<LF>> \o t : t \in PadFrom(Tail(s), FALSE)}
    ELSE IF ~seen /\ Len(s) >= 2 /\ s[1] = SLASH /\ s[2] = SLASH
         THEN UNION {{<<SLASH, SLASH>> \o Spaces(k) \o t :
                          t \in PadFrom(SubSeq(s, 3, Len(s)), TRUE)} :
                     k \in 0..MaxPad}
    ELSE {<<Head(s)>> \o t : t \in PadFrom(Tail(s), seen)}

PadComments(s) == PadFrom(s, FALSE)

\* spaces at the end of a line (or of the text) removed
RECURSIVE TrimTrailing(_)
TrimTrailing(s) ==
    IF s = <<>> THEN <<>>
    ELSE IF Head(s) = SPACE
         THEN LET j == SkipSpaces(s, 1)
              IN  IF j > Len(s) \/ s[j] = LF
                  THEN TrimTrailing(SubSeq(s, j, Len(s)))
                  ELSE SubSeq(s, 1, j - 1) \o TrimTrailing(SubSeq(s, j, Len(s)))
         ELSE <<Head(s)>> \o TrimTrailing(Tail(s))

\* CR LF rewritten as LF
RECURSIVE UnixEol(_)
UnixEol(s) ==
    IF s = <<>> THEN <<>>
    ELSE IF Head(s) = CR /\ Len(s) >= 2 /\ s[2] = LF
         THEN <<LF>> \o UnixEol(SubSeq(s, 3, Len(s)))
         ELSE <<Head(s)>> \o UnixEol(Tail(s))

\* LF rewritten as CR LF
RECURSIVE DosEol(_)
DosEol(s) ==
    IF s = <<>> THEN <<>>
    ELSE IF Head(s) = CR /\ Len(s) >= 2 /\ s[2] = LF
         THEN <<CR, LF>> \o DosEol(SubSeq(s, 3, Len(s)))
    ELSE IF Head(s) = LF
         THEN <<CR, LF>> \o DosEol(Tail(s))
         ELSE <<Head(s)>> \o DosEol(Tail(s))

Reformattings(m) ==
    {m, TrimTrailing(m), UnixEol(m), DosEol(m)} \cup PadComments(m)

\* what can reach clang-format's standard input: the masked bytes of a
\* readable file, or nothing when the first sed was killed
FormatterInputs(f) ==
    {<<>>} \cup {Mask(f[p]) : p \in {q \in DOMAIN f : Readable(f, q)}}

Formatters(f) ==
    LET D == FormatterInputs(f)
        U == UNION {Reformattings(m) : m \in D}
    IN  {[ok |-> TRUE, map |-> g] :
             g \in {h \in [D -> U] : \A m \in D : h[m] \in Reformattings(m)}}
        \cup {[ok |-> FALSE, map |-> [m \in D |-> m]]}

RunFormatter(f, m) ==
    IF f.ok THEN [out |-> f.map[m], rc |-> 0]
            ELSE [out |-> <<>>, rc |-> ToolErrorStatus]

(***************************************************************************)
(* State.                                                                  *)
(***************************************************************************)
VARIABLES
    stdin,       \* the characters on standard input
    fs,          \* the file system: path -> bytes, or Missing
    fmt,         \* the behaviour of clang-format under the style file in use
    pc,          \* the checker's position in the script
    files,       \* line 8
    idx,         \* number of names the for loop of line 15 has finished
    name,        \* line 15
    original,    \* line 18
    formatted,   \* line 22
    status,      \* lines 14, 28
    stdout,      \* the chunks written by print, oldest first
    p1, p2, p3,  \* lines 19-21: the child processes
    exitStatus,  \* the status the parent of the checker observes, -1 while it runs
    aborted      \* TRUE when an uncaught exception ended the run

vars == <<stdin, fs, fmt, pc, files, idx, name, original, formatted, status,
          stdout, p1, p2, p3, exitStatus, aborted>>

\* st: none, running or exited; file: the number of the name it was spawned
\* for; arg: the file named on its command line; rc, out: its exit status and
\* what it wrote to its standard output
NoProcess == [st |-> "none", file |-> 0, arg |-> <<>>, rc |-> 0, out |-> <<>>]

ContentAlphabet == {PRAGMA, SLASH, SPACE, "x", CR, LF}

\* file contents of the runs over whole input lists
RunContents == {<<>>, <<"x">>, <<SPACE>>}

\* n times the line "a\n"
Repeated(n) == [i \in 1..(2 * n) |-> IF i % 2 = 1 THEN "a" ELSE LF]

Start ==
    /\ pc = "readlines"
    /\ files = <<>>
    /\ idx = 0
    /\ name = <<>>
    /\ original = <<>>
    /\ formatted = <<>>
    /\ status = 0
    /\ stdout = <<>>
    /\ p1 = NoProcess
    /\ p2 = NoProcess
    /\ p3 = NoProcess
    /\ exitStatus = -1
    /\ aborted = FALSE

\* any short input, two paths that may exist
Init ==
    /\ stdin \in SeqsUpTo(StdinAlphabet, MaxStdin)
    /\ fs \in [FsPaths -> {Missing} \cup RunContents]
    /\ fmt \in Formatters(fs)
    /\ Start

\* one file of any content over ContentAlphabet
InitPipe ==
    /\ stdin = <<"a", LF>>
    /\ \E c \in SeqsUpTo(ContentAlphabet, MaxContentLen) :
           fs = [p \in FsPaths |-> IF p = <<"a">> THEN c ELSE Missing]
    /\ fmt \in Formatters(fs)
    /\ Start

\* a long list that names the same file again and again, with a working
\* clang-format
InitLong ==
    /\ \E n \in (MaxCount - 2)..MaxCount : stdin = Repeated(n)
    /\ \E c \in RunContents :
           fs = [p \in FsPaths |-> IF p = <<"a">> THEN c ELSE Missing]
    /\ fmt \in {f \in Formatters(fs) : f.ok}
    /\ Start

(***************************************************************************)
(* The checker.                                                            *)
(***************************************************************************)
PrefixChunk(n) == n \o <<":", SPACE>>
OkChunk == <<"OK", LF, LF>>
NeedsFormattingChunk == <<"needs formatting", LF, LF>>

\* sys.exit(n) as the parent process sees it
SysExit(n) == n % (2 ^ ExitBits)

\* an uncaught exception: traceback on stderr, the interpreter exits
Abort ==
    /\ pc' = "done"
    /\ aborted' = TRUE
    /\ exitStatus' = UncaughtExceptionStatus

\* line 8
ReadStdin ==
    /\ pc = "readlines"
    /\ files' = StrippedNames(stdin)
    /\ pc' = "loop"
    /\ UNCHANGED <<stdin, fs, fmt, idx, name, original, formatted, status,
                   stdout, p1, p2, p3, exitStatus, aborted>>

\* a variant of the loop that walks the list from its end
NextNameReversed(fl, i) == fl[Len(fl) - i]

\* line 15: the for loop takes the names in the order of the list
NextName(fl, i) == fl[i + 1]

\* lines 15-16: the next name, and its prefix printed
LoopNext ==
    /\ pc = "loop"
    /\ idx < Len(files)
    /\ name' = NextName(files, idx)
    /\ stdout' = Append(stdout, PrefixChunk(NextName(files, idx)))
    /\ pc' = "open"
    /\ UNCHANGED <<stdin, fs, fmt, files, idx, original, formatted, status,
                   p1, p2, p3, exitStatus, aborted>>

\* a variant of lines 17-18 that goes on to the next name when the file
\* cannot be read
OpenSkipMissing ==
    /\ pc = "open"
    /\ IF Readable(fs, name)
       THEN /\ original' = TextRead(fs[name])
            /\ fs' = FileAfterOpen(fs, name)
            /\ pc' = "spawn1"
            /\ idx' = idx
       ELSE /\ idx' = idx + 1
            /\ pc' = "loop"
            /\ UNCHANGED <<fs, original>>
    /\ UNCHANGED <<stdin, fmt, files, name, formatted, status, stdout,
                   p1, p2, p3, exitStatus, aborted>>

\* lines 17-18: open and read the file; a missing file raises
Open ==
    /\ pc = "open"
    /\ IF Readable(fs, name)
       THEN /\ original' = TextRead(fs[name])
            /\ fs' = FileAfterOpen(fs, name)
            /\ pc' = "spawn1"
            /\ UNCHANGED <<exitStatus, aborted>>
       ELSE /\ Abort
            /\ UNCHANGED <<fs, original>>
    /\ UNCHANGED <<stdin, fmt, files, idx, name, formatted, status, stdout,
                   p1, p2, p3>>

\* line 19
Spawn1 ==
    /\ pc = "spawn1"
    /\ p1' = [st |-> "running", file |-> idx + 1, arg |-> name,
              rc |-> 0, out |-> <<>>]
    /\ pc' = "spawn2"
    /\ UNCHANGED <<stdin, fs, fmt, files, idx, name, original, formatted,
                   status, stdout, p2, p3, exitStatus, aborted>>

\* line 20
Spawn2 ==
    /\ pc = "spawn2"
    /\ p2' = [st |-> "running", file |-> idx + 1, arg |-> <<>>,
              rc |-> 0, out |-> <<>>]
    /\ pc' = "spawn3"
    /\ UNCHANGED <<stdin, fs, fmt, files, idx, name, original, formatted,
                   status, stdout, p1, p3, exitStatus, aborted>>

\* line 21
Spawn3 ==
    /\ pc = "spawn3"
    /\ p3' = [st |-> "running", file |-> idx + 1, arg |-> <<>>,
              rc |-> 0, out |-> <<>>]
    /\ pc' = "communicate"
    /\ UNCHANGED <<stdin, fs, fmt, files, idx, name, original, formatted,
                   status, stdout, p1, p2, exitStatus, aborted>>

\* lines 19-21: Popen raises when the program cannot be started
SpawnFail ==
    /\ pc \in {"spawn1", "spawn2", "spawn3"}
    /\ Abort
    /\ UNCHANGED <<stdin, fs, fmt, files, idx, name, original, formatted,
                   status, stdout, p1, p2, p3>>

\* lines 22-23: read the last child's output to its end and wait for it
Communicate ==
    /\ pc = "communicate"
    /\ p3.st = "exited"
    /\ formatted' = Utf8Decode(p3.out)
    /\ pc' = "compare"
    /\ UNCHANGED <<stdin, fs, fmt, files, idx, name, original, status, stdout,
                   p1, p2, p3, exitStatus, aborted>>

\* lines 24-28, and the loop's step to the next name
Compare ==
    /\ pc = "compare"
    /\ IF original = formatted
       THEN /\ stdout' = Append(stdout, OkChunk)
            /\ status' = status
       ELSE /\ stdout' = Append(stdout, NeedsFormattingChunk)
            /\ status' = status + 1
    /\ idx' = idx + 1
    /\ pc' = "loop"
    /\ UNCHANGED <<stdin, fs, fmt, files, name, original, formatted,
                   p1, p2, p3, exitStatus, aborted>>

\* line 30
Exit ==
    /\ pc = "loop"
    /\ idx = Len(files)
    /\ exitStatus' = SysExit(status)
    /\ pc' = "done"
    /\ UNCHANGED <<stdin, fs, fmt, files, idx, name, original, formatted,
                   status, stdout, p1, p2, p3, aborted>>

(***************************************************************************)
(* The child processes.  Each reads its input to the end, so it finishes   *)
(* only after the process before it in the pipeline has ended.             *)
(***************************************************************************)
\* line 19: sed reads the named file itself and writes the masked text
SedMask ==
    /\ p1.st = "running"
    /\ p1' = [p1 EXCEPT !.st = "exited", !.rc = 0,
                        !.out = Mask(fs[p1.arg])]
    /\ UNCHANGED <<stdin, fs, fmt, pc, files, idx, name, original, formatted,
                   status, stdout, p2, p3, exitStatus, aborted>>

\* line 20: clang-format on the first sed's output
ClangFormat ==
    /\ p2.st = "running"
    /\ p1.st = "exited"
    /\ p1.file = p2.file
    /\ p2' = [p2 EXCEPT !.st = "exited",
                        !.rc = RunFormatter(fmt, p1.out).rc,
                        !.out = RunFormatter(fmt, p1.out).out]
    /\ UNCHANGED <<stdin, fs, fmt, pc, files, idx, name, original, formatted,
                   status, stdout, p1, p3, exitStatus, aborted>>

\* line 21: sed on clang-format's output
SedUnmask ==
    /\ p3.st = "running"
    /\ p2.st = "exited"
    /\ p2.file = p3.file
    /\ p3' = [p3 EXCEPT !.st = "exited", !.rc = 0, !.out = Unmask(p2.out)]
    /\ UNCHANGED <<stdin, fs, fmt, pc, files, idx, name, original, formatted,
                   status, stdout, p1, p2, exitStatus, aborted>>

\* a running child may be killed (a crash, a signal): it has written nothing
\* and the next process reads an empty input.  Kills are followed only while
\* the checker runs.
Killed(p) == [p EXCEPT !.st = "exited", !.rc = KilledStatus, !.out = <<>>]

Kill1 ==
    /\ p1.st = "running"
    /\ pc # "done"
    /\ p1' = Killed(p1)
    /\ UNCHANGED <<stdin, fs, fmt, pc, files, idx, name, original, formatted,
                   status, stdout, p2, p3, exitStatus, aborted>>

Kill2 ==
    /\ p2.st = "running"
    /\ pc # "done"
    /\ p2' = Killed(p2)
    /\ UNCHANGED <<stdin, fs, fmt, pc, files, idx, name, original, formatted,
                   status, stdout, p1, p3, exitStatus, aborted>>

Kill3 ==
    /\ p3.st = "running"
    /\ pc # "done"
    /\ p3' = Killed(p3)
    /\ UNCHANGED <<stdin, fs, fmt, pc, files, idx, name, original, formatted,
                   status, stdout, p1, p2, exitStatus, aborted>>

Checker ==
    \/ ReadStdin
    \/ LoopNext
    \/ Open
    \/ Spawn1
    \/ Spawn2
    \/ Spawn3
    \/ Communicate
    \/ Compare
    \/ Exit

Children ==
    \/ SedMask
    \/ ClangFormat
    \/ SedUnmask

Kills ==
    \/ Kill1
    \/ Kill2
    \/ Kill3

Next == Checker \/ Children \/ SpawnFail \/ Kills

\* runs in which no child is killed: a child ends only by its own exit
NextTools == Checker \/ Children \/ SpawnFail

\* runs in which, besides, every program starts
NextQuiet == Checker \/ Children

Spec == Init /\ [][Next]_vars

SpecTools == Init /\ [][NextTools]_vars

SpecPipe == InitPipe /\ [][Next]_vars

SpecLong == InitLong /\ [][NextQuiet]_vars

(***************************************************************************)
(* Properties.                                                             *)
(***************************************************************************)
Verdicts == {OkChunk, NeedsFormattingChunk}

NumNeedsFormatting ==
    Cardinality({i \in DOMAIN stdout : stdout[i] = NeedsFormattingChunk})

Completed == pc = "done" /\ ~aborted

ChildProcesses == {p1, p2, p3}

IsPrefix(s, t) == Len(s) <= Len(t) /\ SubSeq(t, 1, Len(s)) = s

\* C1: on a completed run the exit status the parent observes is the number
\* of files reported as "needs formatting", and it is 0 exactly when every
\* file conforms; for every count, 256 and more included.
C1_ExitStatusIsCount ==
    Completed =>
        /\ exitStatus = NumNeedsFormatting
        /\ (exitStatus = 0) <=> (NumNeedsFormatting = 0)

\* the state right after the verdict of file number idx was printed
JustCompared ==
    /\ pc = "loop"
    /\ idx >= 1
    /\ p3.st = "exited"
    /\ p3.file = idx

\* C2: the checker prints "OK" and adds 0 to the count exactly when the
\* file's bytes are identical to the bytes the pipeline produced, and prints
\* "needs formatting" and adds 1 otherwise.
C2_VerdictIsByteEquality ==
    JustCompared =>
        /\ stdout[Len(stdout)] \in Verdicts
        /\ (stdout[Len(stdout)] = OkChunk) <=> (fs[files[idx]] = p3.out)
        /\ status = NumNeedsFormatting

\* the pipeline has run to its end on one file, every stage exiting with 0,
\* and clang-format did no more than insert spaces after comment starts
PaddingPipelineDone ==
    /\ p1.st = "exited" /\ p2.st = "exited" /\ p3.st = "exited"
    /\ p1.rc = 0 /\ p2.rc = 0 /\ p3.rc = 0
    /\ p1.file = p3.file /\ p2.file = p3.file
    /\ p2.out \in PadComments(p1.out)

HasPragma(line) == \E i \in 1..Len(line) : line[i] = PRAGMA

\* the text of the line before its first PRAGMA holds no "//" and does not
\* end with "/"
Unshadowed(line) ==
    LET k == CHOOSE i \in 1..Len(line) :
                 line[i] = PRAGMA /\ \A j \in 1..(i - 1) : line[j] # PRAGMA
    IN  /\ \A j \in 1..(k - 2) : ~(line[j] = SLASH /\ line[j + 1] = SLASH)
        /\ k > 1 => line[k - 1] # SLASH

\* C3 as stated: after mask, format, unmask every line that holds a PRAGMA is
\* exactly as it was in the original, lines that already held "//" before
\* the directive included.
C3_EveryDirectiveLineKept ==
    PaddingPipelineDone =>
        LET o == ReadLines(fs[files[p3.file]])
            r == ReadLines(p3.out)
        IN  /\ Len(r) = Len(o)
            /\ \A i \in 1..Len(o) : HasPragma(o[i]) => r[i] = o[i]

\* C3 amended: after mask, format, unmask every line that holds a PRAGMA and
\* whose text before the first PRAGMA holds no "//" and does not end with "/"
\* is exactly as it was in the original.
C3_UnshadowedDirectiveLineKept ==
    PaddingPipelineDone =>
        LET o == ReadLines(fs[files[p3.file]])
            r == ReadLines(p3.out)
        IN  /\ Len(r) = Len(o)
            /\ \A i \in 1..Len(o) :
                   (HasPragma(o[i]) /\ Unshadowed(o[i])) => r[i] = o[i]

\* a directive line went through a pipeline in which clang-format inserted
\* spaces after the masking "//"
C3_Witness ==
    /\ PaddingPipelineDone
    /\ p2.out # p1.out
    /\ \E i \in 1..Len(ReadLines(fs[files[p3.file]])) :
           /\ HasPragma(ReadLines(fs[files[p3.file]])[i])
           /\ Unshadowed(ReadLines(fs[files[p3.file]])[i])

\* C4: on a completed run the printed chunks are, for each input line in
\* order, the prefix of its stripped path followed by one verdict; nothing
\* else is printed, and nothing at all for an empty input.
C4_ReportsFollowInput ==
    Completed =>
        LET L == ReadLines(stdin)
        IN  /\ Len(stdout) = 2 * Len(L)
            /\ \A k \in 1..Len(L) :
                   /\ stdout[2 * k - 1] = PrefixChunk(Strip(L[k]))
                   /\ stdout[2 * k] \in Verdicts

\* a completed run over two different paths
C4_Witness ==
    /\ Completed
    /\ Len(files) = 2
    /\ files[1] # files[2]

\* C5: when a child cannot be started or ends with a non-zero status, the
\* checker stops: no verdict is printed for that file and no later file is
\* processed.
C5_PipelineFailureAborts ==
    /\ aborted => Len(stdout) = 2 * idx + 1
    /\ \A p \in ChildProcesses :
           (p.st = "exited" /\ p.rc # 0) => Len(stdout) < 2 * p.file

\* C6: the exit status of an aborted run (UncaughtExceptionStatus, see Abort)
\* is not the exit status of any completed run that counted non-conforming
\* files; stated for the runs in which clang-format works.
C6_AbortStatusDistinct ==
    /\ (pc = "done" /\ aborted) => exitStatus = UncaughtExceptionStatus
    /\ (Completed /\ fmt.ok /\ status > 0) => exitStatus # UncaughtExceptionStatus

\* what C7 says of every state: nothing of an unreadable path but its prefix
\* is printed, nothing of a later path, no child is started for it or a later
\* path, and the run does not complete
C7_Stops ==
    LET names == StrippedNames(stdin)
    IN  \A i \in 1..Len(names) :
            ~Readable(fs, names[i]) =>
                /\ Len(stdout) <= 2 * i - 1
                /\ idx < i
                /\ \A p \in ChildProcesses : p.st # "none" => p.file < i
                /\ pc = "done" => aborted

\* C7: the run aborts at the first path that cannot be read: no verdict for
\* it, nothing printed for a later path, no child started for it or later,
\* and what was printed before stays as it was.
C7_AbortsAtUnreadablePath ==
    /\ []C7_Stops
    /\ [][IsPrefix(stdout, stdout')]_vars

\* the run aborted at an unreadable path after a verdict for an earlier one
C7_Witness ==
    /\ pc = "done"
    /\ aborted
    /\ idx >= 1
    /\ name # <<>>
    /\ ~Readable(fs, name)
    /\ Len(stdout) = 2 * idx + 1

\* C8: no step of a run, completed or aborted, changes the content of a file.
C8_FilesUnchanged == [][fs' = fs]_vars

\* a run that read a non-empty file, ran the pipeline on it and ended
C8_Witness ==
    /\ pc = "done"
    /\ idx >= 1
    /\ p3.st = "exited"
    /\ fs[files[1]] # <<>>

\* C9: when the checker has started on the next path, no child spawned for
\* an earlier path is still running.
C9_ChildrenEndBeforeNextFile ==
    \A p \in ChildProcesses :
        (p.st = "running" /\ pc \notin {"readlines", "loop", "done"})
            => p.file = idx + 1

\* C10: a blank input line is not skipped: it becomes the empty path, whose
\* prefix is printed, and the run aborts there before any later line.
C10_BlankLineAborts ==
    LET L == ReadLines(stdin)
    IN  \A k \in 1..Len(L) :
            Strip(L[k]) = <<>> =>
                /\ idx < k
                /\ Len(stdout) <= 2 * k - 1
                /\ Len(stdout) = 2 * k - 1 => stdout[2 * k - 1] = PrefixChunk(<<>>)
                /\ pc = "done" => aborted

\* the run aborted at a blank line that follows a checked file
C10_Witness ==
    /\ pc = "done"
    /\ aborted
    /\ idx >= 1
    /\ name = <<>>

====
